---- MODULE Spec2Model ----
(***************************************************************************)
(* DoctorAI: the two-stage "generate then verify" pipeline of              *)
(* app/agents.py (persona resolution, message assembly, completion call    *)
(* with the unsupported-parameter retry, payload coercion).                *)
(*                                                                         *)
(* Python values are tagged records of one shape, texts are sequences of   *)
(* tokens, so that strip(), the fence handling and json.loads/json.dumps   *)
(* are computed rather than assumed.                                       *)
(***************************************************************************)
EXTENDS Integers, Sequences, FiniteSets, TLC

VARIABLES
    settings,   \* app/config.py Settings: read-only process configuration
    provider,   \* the outcomes the remote provider may produce (environment)
    inv,        \* run_agent invocations: locals and position of each
    calls,      \* the requests received by chat.completions.create, in order
    outcomes,   \* what chat.completions.create returned or raised, in order
    cpc,        \* position of the stand-alone coercion or extraction run
    cin,        \* its input: a value to coerce, or a completion's message
    cout,       \* parse_structured_response(cin), or the reply body of cin
    cout2,      \* parse_structured_response(cout)
    users,      \* what the end users may send to the front ends (environment)
    user_data,  \* app/bot.py context.user_data: the chat session of the bot
    bot,        \* app/bot.py handle_message: its locals, position and reply
    http        \* app/main.py analyze: its locals, position and response

vars == <<settings, provider, inv, calls, outcomes, cpc, cin, cout, cout2,
          users, user_data, bot, http>>

-----------------------------------------------------------------------------
(* Bounds of the model *)

\* longest reply text, in tokens, drawn for the stand-alone coercion run
MaxTextLen == 3
\* longest caller-supplied history, in entries
MaxHistLen == 9
\* longest uploaded image, in bytes
MaxImageLen == 4
\* longest segmented reply content, in segments
MaxSegs == 3

-----------------------------------------------------------------------------
(* Python values *)

\* the keys of RESPONSE_FORMAT's "required" list
RequiredFields ==
    {"answer", "provisional_diagnosis", "differentials", "followups",
     "plan", "triage", "risk_flags", "confidence"}

\* None
NullV == [kind |-> "null", n |-> 0, s |-> <<>>, keys |-> {}]
\* an int
IntV(k) == [kind |-> "int", n |-> k, s |-> <<>>, keys |-> {}]
\* True / False
BoolV(b) == [kind |-> "bool", n |-> IF b THEN 1 ELSE 0, s |-> <<>>, keys |-> {}]
\* a str holding the text t
StrV(t) == [kind |-> "str", n |-> 0, s |-> t, keys |-> {}]
\* a list of k elements
ListV(k) == [kind |-> "list", n |-> k, s |-> <<>>, keys |-> {}]
\* a dict with the keys ks, "answer" holding the text a, confidence c (tenths)
DictV(ks, a, c) == [kind |-> "dict", n |-> c, s |-> a, keys |-> ks]
\* an object json.dumps cannot serialise (a parsed model instance)
ObjV == [kind |-> "obj", n |-> 0, s |-> <<>>, keys |-> {}]

\* isinstance(v, dict)
IsDict(v) == v.kind = "dict"
\* isinstance(v, str)
IsStr(v) == v.kind = "str"

\* Python truthiness, as used by (content or "") and (if parsed)
Truthy(v) ==
    CASE v.kind = "null" -> FALSE
      [] v.kind = "int"  -> v.n # 0
      [] v.kind = "bool" -> v.n # 0
      [] v.kind = "str"  -> v.s # <<>>
      [] v.kind = "list" -> v.n > 0
      [] v.kind = "dict" -> v.keys # {}
      [] OTHER           -> TRUE

\* outcome of a Python call: a returned value or a raised exception
Ret(v) == [raised |-> FALSE, v |-> v, exc |-> ""]
Raise(cls) == [raised |-> TRUE, v |-> NullV, exc |-> cls]

-----------------------------------------------------------------------------
(* Texts: sequences of tokens *)

\* a run of three or more backticks
Fence == [c |-> "fence", w |-> "~~~", v |-> NullV]
\* a run of whitespace
Ws == [c |-> "ws", w |-> " ", v |-> NullV]
\* a word that is no JSON document
Word(w) == [c |-> "word", w |-> w, v |-> NullV]
\* the JSON serialisation of the value v
Doc(v) == [c |-> "doc", w |-> "", v |-> v]

RECURSIVE LStrip(_, _)
LStrip(t, cs) ==
    IF t # <<>> /\ t[1].c \in cs THEN LStrip(Tail(t), cs) ELSE t

RECURSIVE RStrip(_, _)
RStrip(t, cs) ==
    IF t # <<>> /\ t[Len(t)].c \in cs
    THEN RStrip(SubSeq(t, 1, Len(t) - 1), cs)
    ELSE t

\* str.strip()
Strip(t) == RStrip(LStrip(t, {"ws"}), {"ws"})
\* str.strip of backticks
StripTicks(t) == RStrip(LStrip(t, {"fence"}), {"fence"})
\* str.startswith of three backticks
StartsWithFence(t) == t # <<>> /\ t[1].c = "fence"
\* str.startswith("json")
StartsWithJson(t) == t # <<>> /\ t[1].c = "word" /\ t[1].w = "json"

-----------------------------------------------------------------------------
(* json *)

\* json.dumps(v, ensure_ascii=False): TypeError on an unserialisable object
json_dumps(v) ==
    IF v.kind = "obj" THEN Raise("TypeError") ELSE Ret(StrV(<<Doc(v)>>))

\* str(v) of an object: its repr, which is no JSON
str_of(v) == StrV(<<Word("<object>")>>)

\* json.loads(v): TypeError unless v is a str; JSONDecodeError unless the text
\* is one JSON document, optionally surrounded by whitespace
json_loads(v) ==
    IF ~IsStr(v) THEN Raise("TypeError")
    ELSE LET t == Strip(v.s)
         IN  IF Len(t) = 1 /\ t[1].c = "doc"
             THEN Ret(t[1].v)
             ELSE Raise("JSONDecodeError")

-----------------------------------------------------------------------------
(* Payload coercion *)

\* the last-resort record of parse_structured_response
FallbackRecord(cleaned) == DictV(RequiredFields, cleaned, 0)

\* the fence and language-tag stripping of parse_structured_response
CleanFence(text) ==
    LET cleaned == Strip(text)
    IN  IF StartsWithFence(cleaned)
        THEN LET c1 == Strip(StripTicks(cleaned))
             IN  IF StartsWithJson(c1) THEN Strip(Tail(c1)) ELSE c1
        ELSE cleaned

\* faulty variant: a non-str value reaches json.loads as it is
TextOfNoSerialise(content) ==
    IF Truthy(content) THEN content ELSE StrV(<<>>)

\* text = content or ""; non-str text is serialised, str() when that fails
TextOf(content) ==
    LET text == IF Truthy(content) THEN content ELSE StrV(<<>>)
    IN  IF IsStr(text) THEN text
        ELSE LET d == json_dumps(text)
             IN  IF d.raised THEN str_of(text) ELSE d.v

parse_structured_response(content) ==
    IF IsDict(content) THEN Ret(content)
    ELSE LET text  == TextOf(content)
             first == json_loads(text)
         IN  IF ~first.raised THEN Ret(first.v)
             ELSE IF first.exc # "JSONDecodeError" THEN first
             ELSE LET cleaned == CleanFence(text.s)
                      second  == json_loads(StrV(cleaned))
                  IN  IF ~second.raised THEN Ret(second.v)
                      ELSE Ret(FallbackRecord(cleaned))

-----------------------------------------------------------------------------
(* Strings, optional values *)

\* an absent (None) str, and a present one
NoneS == [some |-> FALSE, val |-> ""]
SomeS(x) == [some |-> TRUE, val |-> x]
\* an absent (None) sequence (bytes, list), and a present one
NoneQ == [some |-> FALSE, val |-> <<>>]
SomeQ(x) == [some |-> TRUE, val |-> x]

\* an absent (None) number, and a present one
NoneI == [some |-> FALSE, val |-> 0]
SomeI(x) == [some |-> TRUE, val |-> x]

\* truthiness of an optional str, and of optional bytes or an optional list
TruthyS(o) == o.some /\ o.val # ""
TruthyQ(o) == o.some /\ o.val # <<>>

\* the strings of the model that are not already lower case
LowerTable ==
    [Therapist     |-> "therapist",
     THERAPIST     |-> "therapist",
     Dermatologist |-> "dermatologist",
     Cardiologist  |-> "cardiologist",
     HEIC          |-> "heic",
     PNG           |-> "png",
     Temperature   |-> "temperature",
     Unsupported   |-> "unsupported",
     UNSUPPORTED   |-> "unsupported"]

\* str.lower()
lower(x) == IF x \in DOMAIN LowerTable THEN LowerTable[x] ELSE x

-----------------------------------------------------------------------------
(* Profile registry *)

AGENT_PROFILES ==
    [dermatologist |->
        [key   |-> "dermatologist",
         title |-> "Dermatology Attending Physician",
         tone  |-> "precise, reassuring, avoids alarmism",
         specialties |-> "medical dermatology, infectious disease differentials, dermoscopy heuristics, skin care routines"],
     therapist |->
        [key   |-> "therapist",
         title |-> "Generalist Therapist",
         tone  |-> "supportive, concise, trauma-informed",
         specialties |-> "anxiety, depression, stress management, sleep hygiene"]]

\* AgentProfile.system_prompt: the template with title, specialties, tone
\* and the serialised schema description interpolated
system_prompt(profile) ==
    <<Word("You are"), Word(profile.title), Word("Specialty:"),
      Word(profile.specialties), Word("Tone:"), Word(profile.tone),
      Word("Reply in JSON matching:"), Word("RESPONSE_SCHEMA_DOC")>>

\* faulty variant: the key is looked up in the case it was given in
ResolveKeyCaseSensitive(agent_key, default_agent) ==
    IF TruthyS(agent_key) THEN agent_key.val
    ELSE IF TruthyS(default_agent) THEN default_agent.val
    ELSE "dermatologist"

\* key = (agent_key or settings.default_agent or "dermatologist").lower()
ResolveKey(agent_key, default_agent) ==
    lower(IF TruthyS(agent_key) THEN agent_key.val
          ELSE IF TruthyS(default_agent) THEN default_agent.val
          ELSE "dermatologist")

\* profile = AGENT_PROFILES.get(key, AGENT_PROFILES["dermatologist"])
ResolveProfile(agent_key, default_agent) ==
    LET key == ResolveKey(agent_key, default_agent)
    IN  IF key \in DOMAIN AGENT_PROFILES
        THEN AGENT_PROFILES[key]
        ELSE AGENT_PROFILES["dermatologist"]

-----------------------------------------------------------------------------
(* Message assembler *)

\* the number of trailing history entries _build_history looks at
HistoryWindow == 8

\* base64.b64encode: sextets 0..63, 64 for the padding character
RECURSIVE b64encode(_)
b64encode(b) ==
    IF Len(b) = 0 THEN <<>>
    ELSE IF Len(b) = 1
    THEN <<b[1] \div 4, (b[1] % 4) * 16, 64, 64>>
    ELSE IF Len(b) = 2
    THEN <<b[1] \div 4, (b[1] % 4) * 16 + b[2] \div 16, (b[2] % 16) * 4, 64>>
    ELSE <<b[1] \div 4, (b[1] % 4) * 16 + b[2] \div 16,
           (b[2] % 16) * 4 + b[3] \div 64, b[3] % 64>>
         \o b64encode(SubSeq(b, 4, Len(b)))

\* Path(filename).suffix, without its dot: a file name is the sequence of
\* its dot-separated parts; "" when there is no suffix
PathSuffix(parts) ==
    IF /\ Len(parts) >= 2
       /\ parts[Len(parts)] # ""
       /\ ~(Len(parts) = 2 /\ parts[1] = "")
    THEN parts[Len(parts)]
    ELSE ""

\* the extension table of b64_from_upload
MimeTable ==
    [png  |-> "image/png",  jpg  |-> "image/jpeg", jpeg |-> "image/jpeg",
     gif  |-> "image/gif",  webp |-> "image/webp", heic |-> "image/heic"]

\* faulty variant: the file name is ignored
MimeOfAlwaysJpeg(filename) == "image/jpeg"

\* the MIME type b64_from_upload chooses
MimeOf(filename) ==
    IF filename.some /\ filename.val # <<"">>
    THEN LET suffix == lower(PathSuffix(filename.val))
         IN  IF suffix \in DOMAIN MimeTable THEN MimeTable[suffix]
             ELSE "image/jpeg"
    ELSE "image/jpeg"

\* the data URL data:{mime};base64,{encoded}
b64_from_upload(file_data, filename) ==
    [mime |-> MimeOf(filename), data |-> b64encode(file_data)]

NoUrl == [mime |-> "", data |-> <<>>]
TextPart(t) == [type |-> "text", text |-> t, url |-> NoUrl]
ImagePart(u) == [type |-> "image_url", text |-> <<>>, url |-> u]

\* a turn whose content is a str, and one whose content is a list of parts
StrTurn(role, t) == [role |-> role, shape |-> "str", text |-> t, parts |-> <<>>]
PartsTurn(role, ps) == [role |-> role, shape |-> "parts", text |-> <<>>, parts |-> ps]

_build_user_parts(question, image_bytes, image_filename) ==
    <<TextPart(Strip(question))>>
    \o (IF TruthyQ(image_bytes)
        THEN <<ImagePart(b64_from_upload(image_bytes.val, image_filename))>>
        ELSE <<>>)

\* history[-8:]
LastN(h, k) == IF Len(h) <= k THEN h ELSE SubSeq(h, Len(h) - k + 1, Len(h))

\* faulty variant: entries are kept whatever their content
KeepEntryRoleOnly(item) == item.role \in {"user", "assistant"}

\* whether _build_history keeps the entry
KeepEntry(item) == item.role \in {"user", "assistant"} /\ item.content # <<>>

RECURSIVE FilterEntries(_)
FilterEntries(h) ==
    IF h = <<>> THEN <<>>
    ELSE (IF KeepEntry(h[1]) THEN <<StrTurn(h[1].role, h[1].content)>> ELSE <<>>)
         \o FilterEntries(Tail(h))

_build_history(history) ==
    IF ~TruthyQ(history) THEN <<>>
    ELSE FilterEntries(LastN(history.val, HistoryWindow))

\* the messages of the primary call (run_agent)
PrimaryMessages(profile, question, image_bytes, image_filename, history) ==
    <<StrTurn("system", system_prompt(profile))>>
    \o _build_history(history)
    \o <<PartsTurn("user", _build_user_parts(question, image_bytes, image_filename))>>

\* faulty variant: the verifier is not shown the primary payload
VerifierTextNoPayload(question, image_bytes, dumped) ==
    <<Word("User question:")>> \o Strip(question)
    \o <<Ws, Word("Image attached:"),
         Word(IF TruthyQ(image_bytes) THEN "yes" ELSE "no"),
         Ws, Word("Agent output JSON:")>>

\* the text part of the verifier's user turn; dumped is json.dumps(structured)
VerifierText(question, image_bytes, dumped) ==
    <<Word("User question:")>> \o Strip(question)
    \o <<Ws, Word("Image attached:"),
         Word(IF TruthyQ(image_bytes) THEN "yes" ELSE "no"),
         Ws, Word("Agent output JSON:")>>
    \o dumped

\* the messages of the verifier call (run_agent)
VerifierMessages(question, image_bytes, image_filename, dumped) ==
    <<StrTurn("system", <<Word("VERIFICATION_PROMPT")>>),
      PartsTurn("user",
        <<TextPart(VerifierText(question, image_bytes, dumped))>>
        \o (IF TruthyQ(image_bytes)
            THEN <<ImagePart(b64_from_upload(image_bytes.val, image_filename))>>
            ELSE <<>>))>>

-----------------------------------------------------------------------------
(* Completion invoker *)

\* temperature (in tenths) and token budget of the two calls of run_agent
PrimaryTemperature == 4
PrimaryMaxTokens == 800
VerifierTemperature == 2
VerifierMaxTokens == 600

\* the keyword arguments _chat_with_fallback builds for the first request
BuildParams(model, messages, temperature, max_tokens, reasoning_effort) ==
    [keys |-> {"model", "messages", "max_completion_tokens", "response_format"}
              \cup (IF temperature.some THEN {"temperature"} ELSE {})
              \cup (IF TruthyS(reasoning_effort) THEN {"reasoning_effort"} ELSE {}),
     model |-> model,
     messages |-> messages,
     max_completion_tokens |-> max_tokens,
     response_format |-> "RESPONSE_FORMAT",
     temperature |-> IF temperature.some THEN temperature.val ELSE 0,
     reasoning_effort |-> IF TruthyS(reasoning_effort) THEN reasoning_effort.val ELSE ""]

\* faulty variant: the retry drops temperature only
RetryParamsKeepEffort(params) ==
    [params EXCEPT !.keys = @ \ {"temperature"}, !.temperature = 0]

\* retry_params: params without temperature and reasoning_effort
RetryParams(params) ==
    [params EXCEPT !.keys = @ \ {"temperature", "reasoning_effort"},
                   !.temperature = 0,
                   !.reasoning_effort = ""]

\* the lower-cased words of an error's message
MessageWords(e) == {lower(e.message[k]) : k \in DOMAIN e.message}

\* faulty variant: any "unsupported" rejection is retried
IsUnsupportedParamAnyUnsupported(e) ==
    e.cls = "BadRequestError" /\ "unsupported" \in MessageWords(e)

\* the condition under which _chat_with_fallback retries
IsUnsupportedParam(e) ==
    /\ e.cls = "BadRequestError"
    /\ LET m == MessageWords(e)
           unsupported_temp == "temperature" \in m /\ "unsupported" \in m
           unsupported_reason == "reasoning_effort" \in m /\ "unsupported" \in m
       IN  unsupported_temp \/ unsupported_reason

NoErr == [cls |-> "", message |-> <<>>]
Err(cls, message) == [cls |-> cls, message |-> message]

\* shapes of message.content
ContentStr(t) == [shape |-> "str", text |-> t, segs |-> <<>>]
ContentList(segs) == [shape |-> "list", text |-> <<>>, segs |-> segs]
ContentNone == [shape |-> "none", text |-> <<>>, segs |-> <<>>]
ContentOther == [shape |-> "other", text |-> <<>>, segs |-> <<>>]
Seg(type, t) == [type |-> type, text |-> t]
\* completion.choices[0].message
Msg(parsed, content) == [parsed |-> parsed, content |-> content]

RECURSIVE JoinTextSegs(_)
JoinTextSegs(segs) ==
    IF segs = <<>> THEN <<>>
    ELSE (IF segs[1].type = "text" /\ segs[1].text # <<>> THEN segs[1].text ELSE <<>>)
         \o JoinTextSegs(Tail(segs))

_extract_text_content(message) ==
    CASE message.content.shape = "str"  -> message.content.text
      [] message.content.shape = "list" -> JoinTextSegs(message.content.segs)
      [] OTHER                          -> <<>>

\* faulty variant: the text content is preferred to the parsed value
ReplyBodyTextFirst(message) ==
    IF message.content.shape \in {"str", "list"}
    THEN StrV(_extract_text_content(message))
    ELSE message.parsed

\* what _chat_with_schema makes of a completion
ReplyBody(message) ==
    IF Truthy(message.parsed)
    THEN message.parsed
    ELSE StrV(_extract_text_content(message))

_chat_with_schema(message) == parse_structured_response(ReplyBody(message))

-----------------------------------------------------------------------------
(* Agent pipeline: run_agent *)

Invs == {"a", "b"}

\* an invocation that has not been made
InvOff ==
    [pc |-> "off", stage |-> "none", attempt |-> 0,
     question |-> <<>>, agent_key |-> NoneS,
     image_bytes |-> NoneQ, image_filename |-> NoneQ, history |-> NoneQ,
     profile |-> "", params |-> <<>>,
     structured |-> NullV, verified |-> NullV,
     result |-> <<>>, err |-> NoErr]

\* an invocation about to run with the given arguments
InvStart(question, agent_key, image_bytes, image_filename, history) ==
    [InvOff EXCEPT !.pc = "start", !.question = question,
                   !.agent_key = agent_key, !.image_bytes = image_bytes,
                   !.image_filename = image_filename, !.history = history]

\* chat.completions.create(**params) is entered
Issue(i, params) == calls' = Append(calls, [who |-> i, params |-> params])

\* chat.completions.create raises e, or returns a completion holding message
Raised(i, e) ==
    outcomes' = Append(outcomes, [who |-> i, ok |-> FALSE, err |-> e,
                                  message |-> Msg(NullV, ContentNone)])
Returned(i, message) ==
    outcomes' = Append(outcomes, [who |-> i, ok |-> TRUE, err |-> NoErr,
                                  message |-> message])

\* run_agent up to its first await: resolve the persona, assemble the
\* primary messages and issue the primary request
Start(i) ==
    /\ inv[i].pc = "start"
    /\ LET v == inv[i]
           profile == ResolveProfile(v.agent_key, settings.default_agent)
           messages == PrimaryMessages(profile, v.question, v.image_bytes,
                                       v.image_filename, v.history)
           params == BuildParams(settings.openai_model, messages,
                                 SomeI(PrimaryTemperature), PrimaryMaxTokens,
                                 settings.reasoning_effort)
       IN  /\ Issue(i, params)
           /\ inv' = [inv EXCEPT ![i] =
                        [v EXCEPT !.pc = "await", !.stage = "primary",
                                  !.attempt = 1, !.profile = profile.key,
                                  !.params = <<params>>]]
    /\ UNCHANGED <<settings, provider, users, user_data, bot, http, outcomes, cpc, cin, cout, cout2>>

\* faulty variant: the retry is retried as well
RejectRetryAnyAttempt(i, e) ==
    /\ inv[i].pc = "await"
    /\ IsUnsupportedParam(e)
    /\ Raised(i, e)
    /\ LET retry_params == RetryParams(inv[i].params[1])
       IN  /\ Issue(i, retry_params)
           /\ inv' = [inv EXCEPT ![i].attempt = 2, ![i].params = <<retry_params>>]
    /\ UNCHANGED <<settings, provider, users, user_data, bot, http, cpc, cin, cout, cout2>>

\* the in-flight request is rejected as unsupported on its first attempt:
\* the retry is issued
RejectRetry(i, e) ==
    /\ inv[i].pc = "await"
    /\ inv[i].attempt = 1
    /\ IsUnsupportedParam(e)
    /\ Raised(i, e)
    /\ LET retry_params == RetryParams(inv[i].params[1])
       IN  /\ Issue(i, retry_params)
           /\ inv' = [inv EXCEPT ![i].attempt = 2, ![i].params = <<retry_params>>]
    /\ UNCHANGED <<settings, provider, users, user_data, bot, http, cpc, cin, cout, cout2>>

\* the in-flight request is rejected and the error leaves run_agent
RejectFail(i, e) ==
    /\ inv[i].pc = "await"
    /\ inv[i].attempt = 2 \/ ~IsUnsupportedParam(e)
    /\ Raised(i, e)
    /\ inv' = [inv EXCEPT ![i].pc = "failed", ![i].err = e]
    /\ UNCHANGED <<settings, provider, users, user_data, bot, http, calls, cpc, cin, cout, cout2>>

\* faulty variant: the question and the image of the request being served
\* are kept in one place shared by all invocations
CompletePrimarySharedRequest(i, message) ==
    /\ inv[i].pc = "await"
    /\ inv[i].stage = "primary"
    /\ Returned(i, message)
    /\ LET v == inv["a"]
           coerced == _chat_with_schema(message)
           dumped == IF coerced.raised THEN coerced ELSE json_dumps(coerced.v)
           params == BuildParams(settings.openai_verifier_model,
                                 VerifierMessages(v.question, v.image_bytes,
                                                  v.image_filename, dumped.v.s),
                                 SomeI(VerifierTemperature), VerifierMaxTokens,
                                 settings.reasoning_effort)
       IN  IF dumped.raised
           THEN /\ inv' = [inv EXCEPT ![i].pc = "failed",
                                      ![i].err = Err(dumped.exc, <<>>)]
                /\ UNCHANGED calls
           ELSE /\ Issue(i, params)
                /\ inv' = [inv EXCEPT ![i] =
                             [v EXCEPT !.stage = "verifier", !.attempt = 1,
                                       !.structured = coerced.v,
                                       !.params = <<params>>]]
    /\ UNCHANGED <<settings, provider, users, user_data, bot, http, cpc, cin, cout, cout2>>

\* the primary completion arrives: coerce it, assemble the verifier
\* messages and issue the verifier request
CompletePrimary(i, message) ==
    /\ inv[i].pc = "await"
    /\ inv[i].stage = "primary"
    /\ Returned(i, message)
    /\ LET v == inv[i]
           coerced == _chat_with_schema(message)
           dumped == IF coerced.raised THEN coerced ELSE json_dumps(coerced.v)
           params == BuildParams(settings.openai_verifier_model,
                                 VerifierMessages(v.question, v.image_bytes,
                                                  v.image_filename, dumped.v.s),
                                 SomeI(VerifierTemperature), VerifierMaxTokens,
                                 settings.reasoning_effort)
       IN  IF dumped.raised
           THEN /\ inv' = [inv EXCEPT ![i].pc = "failed",
                                      ![i].err = Err(dumped.exc, <<>>)]
                /\ UNCHANGED calls
           ELSE /\ Issue(i, params)
                /\ inv' = [inv EXCEPT ![i] =
                             [v EXCEPT !.stage = "verifier", !.attempt = 1,
                                       !.structured = coerced.v,
                                       !.params = <<params>>]]
    /\ UNCHANGED <<settings, provider, users, user_data, bot, http, cpc, cin, cout, cout2>>

\* the verifier completion arrives: coerce it and return the result
CompleteVerifier(i, message) ==
    /\ inv[i].pc = "await"
    /\ inv[i].stage = "verifier"
    /\ Returned(i, message)
    /\ LET v == inv[i]
           coerced == _chat_with_schema(message)
       IN  IF coerced.raised
           THEN inv' = [inv EXCEPT ![i].pc = "failed",
                                   ![i].err = Err(coerced.exc, <<>>)]
           ELSE inv' = [inv EXCEPT ![i] =
                          [v EXCEPT !.pc = "done", !.verified = coerced.v,
                                    !.result =
                                       <<[agent |-> v.profile,
                                          title |-> AGENT_PROFILES[v.profile].title,
                                          analysis_raw |-> v.structured,
                                          verified |-> coerced.v,
                                          meta |-> [model |-> settings.openai_model,
                                                    verifier |-> settings.openai_verifier_model]]>>]]
    /\ UNCHANGED <<settings, provider, users, user_data, bot, http, calls, cpc, cin, cout, cout2>>

Next ==
    \/ \E i \in Invs : Start(i)
    \/ \E i \in Invs : \E e \in provider.errors : RejectRetry(i, e)
    \/ \E i \in Invs : \E e \in provider.errors : RejectFail(i, e)
    \/ \E i \in Invs : \E m \in provider.replies : CompletePrimary(i, m)
    \/ \E i \in Invs : \E m \in provider.replies : CompleteVerifier(i, m)

-----------------------------------------------------------------------------
(* Stand-alone coercion: parse_structured_response applied once and twice *)

Coerce ==
    /\ cpc = "start"
    /\ cout' = parse_structured_response(cin)
    /\ cpc' = "once"
    /\ UNCHANGED <<settings, provider, users, user_data, bot, http, inv, calls, outcomes, cin, cout2>>

CoerceAgain ==
    /\ cpc = "once"
    /\ ~cout.raised
    /\ cout2' = parse_structured_response(cout.v)
    /\ cpc' = "twice"
    /\ UNCHANGED <<settings, provider, users, user_data, bot, http, inv, calls, outcomes, cin, cout>>

NextCoerce == Coerce \/ CoerceAgain

-----------------------------------------------------------------------------
(* Stand-alone extraction: _chat_with_schema applied to one completion *)

\* the reply body is taken from the message
Extract ==
    /\ cpc = "message"
    /\ cout' = Ret(ReplyBody(cin))
    /\ cpc' = "body"
    /\ UNCHANGED <<settings, provider, users, user_data, bot, http, inv, calls, outcomes, cin, cout2>>

\* the reply body is coerced
CoerceBody ==
    /\ cpc = "body"
    /\ cout2' = parse_structured_response(cout.v)
    /\ cpc' = "coerced"
    /\ UNCHANGED <<settings, provider, users, user_data, bot, http, inv, calls, outcomes, cin, cout>>

NextExtract == Extract \/ CoerceBody

-----------------------------------------------------------------------------
(* Chat-bot front end: app/bot.py *)

\* the trailing entries of the session history handed to run_agent, and
\* the trailing entries stored back
PassedWindow == 6
StoredWindow == 8

\* DEFAULT_AGENT = settings.default_agent or "dermatologist"
DEFAULT_AGENT ==
    IF TruthyS(settings.default_agent) THEN settings.default_agent.val
    ELSE "dermatologist"

\* the fixed texts handle_message replies with
MissingKeyNotice == <<Word("Server missing OPENAI_API_KEY. Please retry later.")>>
EmptyMessageNotice == <<Word("Send a short description, optionally with a photo.")>>
FailureNotice == <<Word("Sorry, I could not process that right now.")>>

\* the fixed texts set_agent replies with
ModeUsage == <<Word("Usage: /mode <dermatologist|therapist>")>>
ModeUnknown == <<Word("Unknown agent. Use dermatologist or therapist.")>>
ModeSet(agent) == <<Word("Mode set to"), Word(agent)>>

\* v.get(field, default) as format_reply prints it
FieldOr(v, field, default) ==
    IF field \notin v.keys THEN <<Word(default)>>
    ELSE CASE field = "answer"     -> v.s
           [] field = "confidence" -> <<Doc(IntV(v.n))>>
           [] OTHER                -> <<Word(field)>>

\* format_reply(payload): payload has no "verification" key, so v is
\* payload["verified"] or {}; v.get raises AttributeError unless v is a dict;
\* the lists differentials, followups and risk_flags are empty in the model
format_reply(payload) ==
    LET v == IF Truthy(payload.verified) THEN payload.verified
             ELSE DictV({}, <<>>, 0)
    IN  IF ~IsDict(v) THEN Raise("AttributeError")
        ELSE Ret(StrV(
               <<Word("*Likely:*")>> \o FieldOr(v, "provisional_diagnosis", "unclear")
               \o <<Word("*Confidence:*")>> \o FieldOr(v, "confidence", "-")
               \o <<Word("*Answer:*")>> \o FieldOr(v, "answer", "-")
               \o <<Word("*Plan:*")>> \o FieldOr(v, "plan", "-")
               \o <<Word("*Triage:*")>> \o FieldOr(v, "triage", "-")
               \o <<Word("_Not medical advice. See a clinician if symptoms worsen or you feel unwell._")>>))

\* a Telegram update: whether it carries a message, the message's text and
\* caption, and its photo sizes (file_unique_id, content), smallest first
Update(text, caption, photo) ==
    [message |-> TRUE, text |-> text, caption |-> caption, photo |-> photo]
NoMessageUpdate ==
    [message |-> FALSE, text |-> NoneQ, caption |-> NoneQ, photo |-> <<>>]
PhotoSize(id, data) == [file_unique_id |-> id, data |-> data]

\* text = update.message.text or update.message.caption or ""
UpdateText(u) ==
    IF TruthyQ(u.text) THEN u.text.val
    ELSE IF TruthyQ(u.caption) THEN u.caption.val
    ELSE <<>>

\* a handler of the bot that has not run
BotIdle ==
    [pc |-> "idle", handler |-> "", text |-> <<>>, history |-> <<>>, sent |-> <<>>]

\* a handler that has returned after replying with msg
BotReturned(handler, msg) ==
    [pc |-> "returned", handler |-> handler, text |-> <<>>, history |-> <<>>,
     sent |-> <<msg>>]

\* context.user_data.get("history", [])
SessionHistory == IF user_data.history.some THEN user_data.history.val ELSE <<>>

\* faulty variant: the window handed on is as long as the stored one
history_windowStored(history) == LastN(history, StoredWindow)

\* history[-6:]
history_window(history) == LastN(history, PassedWindow)

\* a new run_agent invocation takes the slot i; the requests of the
\* invocation that held the slot before are forgotten
Enter(i, frame) ==
    /\ inv' = [inv EXCEPT ![i] = frame]
    /\ calls' = SelectSeq(calls, LAMBDA c : c.who # i)
    /\ outcomes' = SelectSeq(outcomes, LAMBDA o : o.who # i)

\* handle_message up to its await of run_agent: the two rejections, the
\* photo download, the history window, the call of run_agent
handle_message(u) ==
    /\ bot.pc # "await"
    /\ LET text == UpdateText(u)
       IN  IF ~u.message
           THEN UNCHANGED <<bot, inv, calls, outcomes>>
           ELSE IF ~TruthyS(settings.openai_api_key)
           THEN /\ bot' = BotReturned("handle_message", MissingKeyNotice)
                /\ UNCHANGED <<inv, calls, outcomes>>
           ELSE IF Strip(text) = <<>> /\ u.photo = <<>>
           THEN /\ bot' = BotReturned("handle_message", EmptyMessageNotice)
                /\ UNCHANGED <<inv, calls, outcomes>>
           ELSE LET photo == u.photo[Len(u.photo)]
                    image_bytes == IF u.photo # <<>> THEN SomeQ(photo.data) ELSE NoneQ
                    filename == IF u.photo # <<>>
                                THEN SomeQ(<<photo.file_unique_id, "jpg">>)
                                ELSE NoneQ
                    agent == IF user_data.agent.some THEN user_data.agent.val
                             ELSE DEFAULT_AGENT
                    history == history_window(SessionHistory)
                IN  /\ bot' = [pc |-> "await", handler |-> "handle_message",
                               text |-> text, history |-> history, sent |-> <<>>]
                    /\ Enter("a", InvStart(IF text # <<>> THEN text
                                           ELSE <<Word("Photo attached")>>,
                                           SomeS(agent), image_bytes, filename,
                                           SomeQ(history)))
    /\ UNCHANGED <<settings, provider, users, user_data, http, cpc, cin, cout, cout2>>

\* the entry handle_message stores for the user's message
UserEntry(text) == [role |-> "user", content |-> text]
AssistantEntry(reply_text) == [role |-> "assistant", content |-> reply_text]

\* run_agent has returned: format the reply, send it, store the history
handle_message_reply ==
    /\ bot.pc = "await"
    /\ inv["a"].pc = "done"
    /\ LET reply_text == format_reply(inv["a"].result[1])
           history == bot.history \o <<UserEntry(bot.text),
                                       AssistantEntry(reply_text.v.s)>>
       IN  IF reply_text.raised
           THEN /\ bot' = [bot EXCEPT !.pc = "raised"]
                /\ UNCHANGED user_data
           ELSE /\ bot' = [bot EXCEPT !.pc = "returned", !.history = history,
                                      !.sent = <<reply_text.v.s>>]
                /\ user_data' = [user_data EXCEPT
                                   !.history = SomeQ(LastN(history, StoredWindow))]
    /\ UNCHANGED <<settings, provider, users, inv, calls, outcomes, http,
                   cpc, cin, cout, cout2>>

\* faulty variant: the failed message is stored in the session
handle_message_exceptStoresEntry ==
    /\ bot.pc = "await"
    /\ inv["a"].pc = "failed"
    /\ bot' = [bot EXCEPT !.pc = "returned", !.sent = <<FailureNotice>>]
    /\ user_data' = [user_data EXCEPT
                       !.history = SomeQ(LastN(Append(bot.history, UserEntry(bot.text)),
                                               StoredWindow))]
    /\ UNCHANGED <<settings, provider, users, inv, calls, outcomes,
                   http, cpc, cin, cout, cout2>>

\* run_agent has raised: the except branch of handle_message
handle_message_except ==
    /\ bot.pc = "await"
    /\ inv["a"].pc = "failed"
    /\ bot' = [bot EXCEPT !.pc = "returned", !.sent = <<FailureNotice>>]
    /\ UNCHANGED <<settings, provider, users, user_data, inv, calls, outcomes,
                   http, cpc, cin, cout, cout2>>

\* the /mode command with the arguments args
set_agent(args) ==
    /\ bot.pc # "await"
    /\ IF args = <<>>
       THEN /\ bot' = BotReturned("set_agent", ModeUsage)
            /\ UNCHANGED user_data
       ELSE LET agent == lower(args[1])
            IN  IF agent \notin DOMAIN AGENT_PROFILES
                THEN /\ bot' = BotReturned("set_agent", ModeUnknown)
                     /\ UNCHANGED user_data
                ELSE /\ bot' = BotReturned("set_agent", ModeSet(agent))
                     /\ user_data' = [user_data EXCEPT !.agent = SomeS(agent)]
    /\ UNCHANGED <<settings, provider, users, inv, calls, outcomes, http,
                   cpc, cin, cout, cout2>>

-----------------------------------------------------------------------------
(* HTTP front end: app/main.py *)

\* the form of a POST /analyze: question, agent, history (absent, empty, not
\* JSON, or a JSON list of entries) and the uploaded image
Request(question, agent, history, image) ==
    [question |-> question, agent |-> agent, history |-> history, image |-> image]
HistoryField(kind, entries) == [kind |-> kind, entries |-> entries]
NoUpload == [some |-> FALSE, data |-> <<>>, filename |-> NoneQ]
Upload(data, filename) == [some |-> TRUE, data |-> data, filename |-> filename]

\* what the client receives: the response of a raised HTTPException, the
\* response to an exception analyze does not handle, the JSONResponse
HTTPException(status_code, detail) ==
    [status |-> status_code, detail |-> detail, content |-> <<>>]
ServerError == [status |-> 500, detail |-> "Internal Server Error", content |-> <<>>]
JSONResponse(content) == [status |-> 200, detail |-> "", content |-> <<content>>]

\* an analyze request that has not been made, and one that was answered
HttpIdle == [pc |-> "idle", response |-> <<>>, exc |-> ""]
HttpResponded(response, exc) ==
    [pc |-> "responded", response |-> <<response>>, exc |-> exc]

\* analyze up to its await of run_agent: the two checks, the history
\* parsing, the call of run_agent
analyze(req) ==
    /\ http.pc # "await"
    /\ IF ~TruthyS(settings.openai_api_key)
       THEN /\ http' = HttpResponded(HTTPException(500, "OPENAI_API_KEY is required."),
                                     "HTTPException")
            /\ UNCHANGED <<inv, calls, outcomes>>
       ELSE IF Strip(req.question) = <<>>
       THEN /\ http' = HttpResponded(HTTPException(400, "Question is required."),
                                     "HTTPException")
            /\ UNCHANGED <<inv, calls, outcomes>>
       ELSE IF req.history.kind = "invalid"
       THEN /\ http' = HttpResponded(HTTPException(400, "Invalid history JSON"),
                                     "HTTPException")
            /\ UNCHANGED <<inv, calls, outcomes>>
       ELSE LET image_bytes == IF req.image.some THEN SomeQ(req.image.data) ELSE NoneQ
                filename == IF req.image.some THEN req.image.filename ELSE NoneQ
                hist_payload == IF req.history.kind = "list"
                                THEN SomeQ(req.history.entries) ELSE NoneQ
            IN  /\ http' = [pc |-> "await", response |-> <<>>, exc |-> ""]
                /\ Enter("b", InvStart(Strip(req.question), req.agent,
                                       image_bytes, filename, hist_payload))
    /\ UNCHANGED <<settings, provider, users, user_data, bot, cpc, cin, cout, cout2>>

\* AnalysisResponse(...) accepts the result: result and verification are
\* dicts
ValidAnalysis(result) == IsDict(result.analysis_raw) /\ IsDict(result.verified)

\* payload.model_dump()
AnalysisResponse(result) ==
    [agent |-> result.agent, title |-> result.title,
     result |-> result.analysis_raw, verification |-> result.verified,
     meta |-> result.meta]

\* run_agent has returned: validate the result and respond with it
analyze_respond ==
    /\ http.pc = "await"
    /\ inv["b"].pc = "done"
    /\ LET result == inv["b"].result[1]
       IN  IF ValidAnalysis(result)
           THEN http' = HttpResponded(JSONResponse(AnalysisResponse(result)), "")
           ELSE http' = HttpResponded(ServerError, "ValidationError")
    /\ UNCHANGED <<settings, provider, users, user_data, bot, inv, calls,
                   outcomes, cpc, cin, cout, cout2>>

\* run_agent has raised: analyze does not handle the exception
analyze_raise ==
    /\ http.pc = "await"
    /\ inv["b"].pc = "failed"
    /\ http' = HttpResponded(ServerError, inv["b"].err.cls)
    /\ UNCHANGED <<settings, provider, users, user_data, bot, inv, calls,
                   outcomes, cpc, cin, cout, cout2>>

\* no front end has handled anything
FrontIdle ==
    /\ users = [updates |-> {}, modes |-> {}, requests |-> {}]
    /\ user_data = [agent |-> NoneS, history |-> NoneQ]
    /\ bot = BotIdle
    /\ http = HttpIdle

\* the chat bot and the pipeline it calls
NextBot ==
    \/ Next
    \/ \E u \in users.updates : handle_message(u)
    \/ handle_message_reply
    \/ handle_message_except
    \/ \E args \in users.modes : set_agent(args)

\* both front ends and the pipeline they call
NextFront ==
    \/ NextBot
    \/ \E req \in users.requests : analyze(req)
    \/ analyze_respond
    \/ analyze_raise

-----------------------------------------------------------------------------
(* Inputs and initial states *)

\* a reply that satisfies the schema, and the verifier's version of it
FullRecord == DictV(RequiredFields, <<Word("ok")>>, 5)
VerifiedRecord == DictV(RequiredFields, <<Word("ok")>>, 4)
\* a JSON object that lacks required fields
PartialRecord == DictV({"answer"}, <<Word("a")>>, 0)

\* the tokens texts are drawn from
Alphabet ==
    {Fence, Ws, Word("json"), Word("abc")}
    \cup {Doc(v) : v \in {FullRecord, PartialRecord, ListV(0), IntV(0),
                          StrV(<<Word("abc")>>)}}

\* all texts of at most k tokens
Texts(k) == UNION {[1..n -> Alphabet] : n \in 0..k}

\* the values parse_structured_response is applied to
CoerceInputs ==
    {StrV(t) : t \in Texts(MaxTextLen)}
    \cup {StrV(<<Fence, Word("json"), Ws, Doc(FullRecord), Ws, Fence>>),
          StrV(<<Doc(StrV(<<Doc(IntV(42))>>))>>)}
    \cup {FullRecord, PartialRecord, DictV({}, <<>>, 0), DictV({"ignored"}, <<>>, 0),
          NullV, IntV(0), IntV(42), BoolV(TRUE), BoolV(FALSE),
          ListV(0), ListV(2), ObjV}

DefaultSettings ==
    [openai_api_key |-> SomeS("sk-test"),
     openai_model |-> "gpt-5.1-2025-11-13",
     openai_verifier_model |-> "gpt-5.1-2025-11-13",
     reasoning_effort |-> SomeS("medium"),
     default_agent |-> SomeS("dermatologist")]

\* the replies a provider may return
AllReplies ==
    {Msg(FullRecord, ContentOther),
     Msg(VerifiedRecord, ContentNone),
     Msg(ObjV, ContentStr(<<Doc(FullRecord)>>)),
     Msg(DictV({}, <<>>, 0), ContentStr(<<Doc(FullRecord)>>)),
     Msg(NullV, ContentStr(<<Doc(VerifiedRecord)>>)),
     Msg(NullV, ContentStr(<<Fence, Word("json"), Ws, Doc(FullRecord), Ws, Fence>>)),
     Msg(NullV, ContentStr(<<Word("sorry")>>)),
     Msg(NullV, ContentStr(<<>>)),
     Msg(NullV, ContentStr(<<Word("{answer: trunc")>>)),
     Msg(NullV, ContentStr(<<Doc(ListV(0))>>)),
     Msg(NullV, ContentStr(<<Doc(PartialRecord)>>)),
     Msg(NullV, ContentList(<<Seg("text", <<Fence, Word("json")>>),
                              Seg("refusal", <<Word("no")>>),
                              Seg("text", <<>>),
                              Seg("text", <<Doc(FullRecord), Fence>>)>>)),
     Msg(NullV, ContentNone)}

\* the errors a provider may raise
AllErrors ==
    {Err("BadRequestError", <<"Temperature", "unsupported">>),
     Err("BadRequestError", <<"Unsupported", "parameter", "reasoning_effort">>),
     Err("BadRequestError", <<"temperature", "reasoning_effort", "UNSUPPORTED">>),
     Err("BadRequestError", <<"temperature", "invalid">>),
     Err("BadRequestError", <<"unsupported", "schema">>),
     Err("BadRequestError", <<"invalid", "schema">>),
     Err("RateLimitError", <<"rate", "limit">>),
     Err("APIStatusError", <<"temperature", "unsupported">>)}

FullProvider == [replies |-> AllReplies, errors |-> AllErrors]

\* a provider with one reply, one unsupported-parameter error, one other error
PlainProvider ==
    [replies |-> {Msg(NullV, ContentStr(<<Doc(FullRecord)>>))},
     errors |-> {Err("BadRequestError", <<"Temperature", "unsupported">>),
                 Err("RateLimitError", <<"rate", "limit">>)}]

Question1 == <<Ws, Word("red itchy patch on forearm for 3 days"), Ws>>

ShortHistory ==
    <<[role |-> "user", content |-> <<Word("prev")>>],
      [role |-> "assistant", content |-> <<Word("resp")>>],
      [role |-> "other", content |-> <<Word("skip")>>]>>

PngImage == SomeQ(<<137, 80>>)
PngName == SomeQ(<<"sample", "png">>)

\* no stand-alone coercion run
CoerceIdle ==
    /\ cpc = "idle"
    /\ cin = NullV
    /\ cout = Ret(NullV)
    /\ cout2 = Ret(NullV)

\* one invocation, "a", with the given arguments
OneInv(question, agent_key, image_bytes, image_filename, history) ==
    /\ inv = [i \in Invs |->
                IF i = "a"
                THEN InvStart(question, agent_key, image_bytes, image_filename, history)
                ELSE InvOff]
    /\ calls = <<>>
    /\ outcomes = <<>>

Init ==
    /\ \E re \in {SomeS("medium"), NoneS} :
          settings = [DefaultSettings EXCEPT !.reasoning_effort = re]
    /\ provider = FullProvider
    /\ \E agent_key \in {NoneS, SomeS("Therapist")},
          image \in {<<NoneQ, NoneQ>>, <<PngImage, PngName>>},
          history \in {NoneQ, SomeQ(ShortHistory)} :
          OneInv(Question1, agent_key, image[1], image[2], history)
    /\ CoerceIdle
    /\ FrontIdle

Spec == Init /\ [][Next]_vars

InitCoerce ==
    /\ settings = DefaultSettings
    /\ provider = [replies |-> {}, errors |-> {}]
    /\ inv = [i \in Invs |-> InvOff]
    /\ calls = <<>>
    /\ outcomes = <<>>
    /\ cpc = "start"
    /\ cin \in CoerceInputs
    /\ cout = Ret(NullV)
    /\ cout2 = Ret(NullV)
    /\ FrontIdle

SpecCoerce == InitCoerce /\ [][NextCoerce]_vars

\* the selectors and default keys persona resolution is tried on
Selectors ==
    {NoneS, SomeS(""), SomeS("therapist"), SomeS("Therapist"), SomeS("THERAPIST"),
     SomeS("dermatologist"), SomeS("Dermatologist"),
     SomeS("cardiologist"), SomeS("Cardiologist")}
DefaultKeys ==
    {NoneS, SomeS(""), SomeS("dermatologist"), SomeS("therapist"),
     SomeS("Therapist"), SomeS("cardiologist")}

InitPersona ==
    /\ \E d \in DefaultKeys :
          settings = [DefaultSettings EXCEPT !.default_agent = d]
    /\ provider = PlainProvider
    /\ \E agent_key \in Selectors :
          OneInv(Question1, agent_key, NoneQ, NoneQ, NoneQ)
    /\ CoerceIdle
    /\ FrontIdle

SpecPersona == InitPersona /\ [][Next]_vars

\* the j-th entry of a history: a user or assistant turn with content, or an
\* entry _build_history must drop (foreign role, empty content, no role)
HistoryEntry(j, good) ==
    IF good
    THEN [role |-> IF j % 2 = 1 THEN "user" ELSE "assistant",
          content |-> <<Doc(IntV(j))>>]
    ELSE CASE j % 3 = 0 -> [role |-> "other", content |-> <<Doc(IntV(j))>>]
           [] j % 3 = 1 -> [role |-> "user", content |-> <<>>]
           [] OTHER     -> [role |-> "", content |-> <<Doc(IntV(j))>>]

\* all histories of at most k entries
Histories(k) ==
    UNION {{[j \in 1..n |-> HistoryEntry(j, f[j])] : f \in [1..n -> BOOLEAN]}
           : n \in 0..k}

InitHistory ==
    /\ settings = DefaultSettings
    /\ provider = PlainProvider
    /\ \E history \in {NoneQ} \cup {SomeQ(h) : h \in Histories(MaxHistLen)} :
          OneInv(Question1, NoneS, NoneQ, NoneQ, history)
    /\ CoerceIdle
    /\ FrontIdle

SpecHistory == InitHistory /\ [][Next]_vars

\* all byte strings of at most k bytes
ByteStrings(k) == UNION {[1..n -> {0, 255}] : n \in 0..k}

\* file names, as their dot-separated parts
FileNames ==
    {NoneQ, SomeQ(<<"">>), SomeQ(<<"scan", "heic">>), SomeQ(<<"scan", "HEIC">>),
     SomeQ(<<"sample", "png">>), SomeQ(<<"a", "jpg">>), SomeQ(<<"a", "jpeg">>),
     SomeQ(<<"a", "gif">>), SomeQ(<<"a", "webp">>), SomeQ(<<"a", "bmp">>),
     SomeQ(<<"scan">>), SomeQ(<<"", "png">>), SomeQ(<<"scan", "">>),
     SomeQ(<<"a", "png", "gz">>)}

InitImage ==
    /\ settings = DefaultSettings
    /\ provider = PlainProvider
    /\ \E image_bytes \in {NoneQ} \cup {SomeQ(b) : b \in ByteStrings(MaxImageLen)},
          image_filename \in FileNames :
          OneInv(Question1, NoneS, image_bytes, image_filename, NoneQ)
    /\ CoerceIdle
    /\ FrontIdle

SpecImage == InitImage /\ [][Next]_vars

\* the updates a chat user may send: text, a photo with a caption, a photo
\* alone, blank text, an update without a message
PhotoSizes == <<PhotoSize("AQADs", <<0>>), PhotoSize("AQADm", <<255, 0>>)>>
TextUpdate == Update(SomeQ(<<Word("itchy rash")>>), NoneQ, <<>>)
CaptionedPhotoUpdate == Update(NoneQ, SomeQ(<<Word("itchy rash")>>), PhotoSizes)
PhotoOnlyUpdate == Update(NoneQ, NoneQ, PhotoSizes)
BlankUpdate == Update(SomeQ(<<Ws>>), NoneQ, <<>>)

BotUsers ==
    [updates |-> {TextUpdate, CaptionedPhotoUpdate, PhotoOnlyUpdate, BlankUpdate,
                  NoMessageUpdate},
     modes |-> {<<>>, <<"Therapist">>, <<"cardiologist">>},
     requests |-> {}]

InitBot ==
    /\ \E k \in {SomeS("sk-test"), NoneS} :
          settings = [DefaultSettings EXCEPT !.openai_api_key = k]
    /\ provider = PlainProvider
    /\ inv = [i \in Invs |-> InvOff]
    /\ calls = <<>>
    /\ outcomes = <<>>
    /\ CoerceIdle
    /\ users = BotUsers
    /\ user_data = [agent |-> NoneS, history |-> NoneQ]
    /\ bot = BotIdle
    /\ http = HttpIdle

SpecBot == InitBot /\ [][NextBot]_vars

\* a provider whose replies include a JSON object lacking required fields
\* and a JSON document that is no object
LooseProvider ==
    [replies |-> {Msg(NullV, ContentStr(<<Doc(FullRecord)>>)),
                  Msg(NullV, ContentStr(<<Doc(PartialRecord)>>)),
                  Msg(NullV, ContentStr(<<Doc(IntV(42))>>))},
     errors |-> {Err("BadRequestError", <<"Temperature", "unsupported">>),
                 Err("RateLimitError", <<"rate", "limit">>)}]

\* the users of the bot process, and the users of the HTTP server process
ChatUsers ==
    [updates |-> {TextUpdate, BlankUpdate},
     modes |-> {<<"Therapist">>},
     requests |-> {}]
WebUsers ==
    [updates |-> {},
     modes |-> {},
     requests |-> {Request(Question1, SomeS("therapist"),
                           HistoryField("list", ShortHistory),
                           Upload(<<137, 80>>, PngName)),
                   Request(Question1, NoneS, HistoryField("empty", <<>>), NoUpload),
                   Request(<<Ws>>, NoneS, HistoryField("absent", <<>>), NoUpload),
                   Request(Question1, NoneS, HistoryField("invalid", <<>>), NoUpload)}]

InitFront ==
    /\ \E k \in {SomeS("sk-test"), NoneS} :
          settings = [DefaultSettings EXCEPT !.openai_api_key = k]
    /\ provider = LooseProvider
    /\ inv = [i \in Invs |-> InvOff]
    /\ calls = <<>>
    /\ outcomes = <<>>
    /\ CoerceIdle
    /\ users \in {ChatUsers, WebUsers}
    /\ user_data = [agent |-> NoneS, history |-> NoneQ]
    /\ bot = BotIdle
    /\ http = HttpIdle

SpecFront == InitFront /\ [][NextFront]_vars

\* two invocations with different arguments, both about to run
Question2 == <<Word("trouble sleeping since last week")>>

FirstArgs ==
    [question |-> Question1, agent_key |-> SomeS("Therapist"),
     image_bytes |-> PngImage, image_filename |-> PngName,
     history |-> SomeQ(ShortHistory)]
SecondArgs ==
    [question |-> Question2, agent_key |-> NoneS,
     image_bytes |-> NoneQ, image_filename |-> NoneQ, history |-> NoneQ]
ArgsOf(i) == IF i = "a" THEN FirstArgs ELSE SecondArgs

\* a provider with two replies that coerce to different payloads
TwoReplyProvider ==
    [replies |-> {Msg(NullV, ContentStr(<<Doc(FullRecord)>>)),
                  Msg(NullV, ContentStr(<<Word("sorry")>>))},
     errors |-> {Err("BadRequestError", <<"Temperature", "unsupported">>),
                 Err("RateLimitError", <<"rate", "limit">>)}]

InitConcurrent ==
    /\ settings = DefaultSettings
    /\ provider = TwoReplyProvider
    /\ inv = [i \in Invs |->
                InvStart(ArgsOf(i).question, ArgsOf(i).agent_key,
                         ArgsOf(i).image_bytes, ArgsOf(i).image_filename,
                         ArgsOf(i).history)]
    /\ calls = <<>>
    /\ outcomes = <<>>
    /\ CoerceIdle
    /\ FrontIdle

SpecConcurrent == InitConcurrent /\ [][Next]_vars

\* the parsed values, segment texts and contents a completion may hold
ParsedValues == {NullV, FullRecord, PartialRecord, DictV({}, <<>>, 0), ObjV}
SegTexts == {<<>>, <<Word("abc")>>, <<Doc(FullRecord)>>}
Segs == {Seg(type, t) : type \in {"text", "refusal"}, t \in SegTexts}
Contents ==
    {ContentNone, ContentOther}
    \cup {ContentStr(t) : t \in SegTexts}
    \cup {ContentList(s) : s \in UNION {[1..n -> Segs] : n \in 0..MaxSegs}}

InitExtract ==
    /\ settings = DefaultSettings
    /\ provider = [replies |-> {}, errors |-> {}]
    /\ inv = [i \in Invs |-> InvOff]
    /\ calls = <<>>
    /\ outcomes = <<>>
    /\ cpc = "message"
    /\ \E parsed \in ParsedValues, content \in Contents : cin = Msg(parsed, content)
    /\ cout = Ret(NullV)
    /\ cout2 = Ret(NullV)
    /\ FrontIdle

SpecExtract == InitExtract /\ [][NextExtract]_vars

-----------------------------------------------------------------------------
(* Properties *)

\* the requests of invocation i, and what they returned or raised
CallsOf(i) == SelectSeq(calls, LAMBDA c : c.who = i)
OutcomesOf(i) == SelectSeq(outcomes, LAMBDA o : o.who = i)

\* a record holding all eight required fields
IsFullRecord(v) == IsDict(v) /\ RequiredFields \subseteq v.keys

\* C1: whatever value parse_structured_response is applied to, it returns
\* (never raises) a record that holds all 8 required fields.
C1_CoercionYieldsFullRecord ==
    cpc # "start" => ~cout.raised /\ IsFullRecord(cout.v)

\* C9: coercion is idempotent: coercing the coerced value returns an equal
\* value, for every input.
C9_CoercionIdempotent ==
    cpc = "twice" => ~cout2.raised /\ cout2.v = cout.v

\* an error that rejects the request because temperature and/or
\* reasoning_effort is unsupported
UnsupportedParamError(e) ==
    /\ e.cls = "BadRequestError"
    /\ \E k \in DOMAIN e.message : lower(e.message[k]) = "unsupported"
    /\ \E k \in DOMAIN e.message :
          lower(e.message[k]) \in {"temperature", "reasoning_effort"}

\* the k-th request of an invocation opens a completion call (is no retry)
IsFirstRequest(os, k) == k = 1 \/ os[k - 1].ok

\* a request of the verifier stage
IsVerifierCall(c) ==
    c.params.messages[1].text = <<Word("VERIFICATION_PROMPT")>>

\* retry is first without temperature and reasoning_effort, else unchanged
StrippedCopy(first, retry) ==
    /\ retry.keys = first.keys \ {"temperature", "reasoning_effort"}
    /\ {"temperature", "reasoning_effort"} \cap retry.keys = {}
    /\ retry.keys = {"model", "messages", "max_completion_tokens", "response_format"}
    /\ retry.model = first.model
    /\ retry.messages = first.messages
    /\ retry.max_completion_tokens = first.max_completion_tokens
    /\ retry.response_format = first.response_format

\* the error e has left run_agent: no result, no degraded answer
FailedWith(i, e) ==
    /\ inv[i].pc = "failed"
    /\ inv[i].err = e
    /\ inv[i].result = <<>>

\* the stage fed by the k-th request has the coerced reply as its payload
StageResultIs(i, c, message) ==
    LET payload == _chat_with_schema(message).v
    IN  IF IsVerifierCall(c)
        THEN /\ inv[i].pc = "done"
             /\ inv[i].verified = payload
             /\ inv[i].result[1].verified = payload
        ELSE inv[i].structured = payload

\* C2: when the first request of a completion call is rejected with a
\* temperature / reasoning-effort "unsupported" error, exactly one retry is
\* issued, without temperature and reasoning_effort and otherwise unchanged,
\* and the outcome of the call is the outcome of the retry.
C2_UnsupportedRetriedOnce ==
    \A i \in Invs :
        LET cs == CallsOf(i)
            os == OutcomesOf(i)
        IN  \A k \in DOMAIN os :
                (/\ IsFirstRequest(os, k)
                 /\ ~os[k].ok
                 /\ UnsupportedParamError(os[k].err))
                => /\ Len(cs) >= k + 1
                   /\ StrippedCopy(cs[k].params, cs[k + 1].params)
                   /\ (k + 2 \in DOMAIN cs =>
                         ~IsVerifierCall(cs[k]) /\ IsVerifierCall(cs[k + 2]))
                   /\ (k + 1 \in DOMAIN os =>
                         IF os[k + 1].ok
                         THEN StageResultIs(i, cs[k + 1], os[k + 1].message)
                         ELSE Len(cs) = k + 1 /\ FailedWith(i, os[k + 1].err))

\* C2 witness: a first request was rejected as unsupported while it carried
\* both optional parameters, and the retry was answered.
C2_Witness ==
    LET cs == CallsOf("a")
        os == OutcomesOf("a")
    IN  /\ Len(os) >= 2
        /\ ~os[1].ok
        /\ UnsupportedParamError(os[1].err)
        /\ {"temperature", "reasoning_effort"} \subseteq cs[1].params.keys
        /\ os[2].ok
        /\ inv["a"].structured = FullRecord

\* C3: a rejection that is no unsupported-parameter error is not retried and
\* leaves run_agent unchanged; on the primary call the verifier request is
\* never issued and exactly one request was made.
C3_OtherErrorsPropagate ==
    \A i \in Invs :
        LET cs == CallsOf(i)
            os == OutcomesOf(i)
        IN  \A k \in DOMAIN os :
                (~os[k].ok /\ ~UnsupportedParamError(os[k].err))
                => /\ Len(cs) = k
                   /\ Len(os) = k
                   /\ FailedWith(i, os[k].err)
                   /\ (k = 1 => Len(cs) = 1 /\ ~IsVerifierCall(cs[1]))

\* C3 witness: the primary request was rejected with a rate-limit error.
C3_Witness ==
    LET os == OutcomesOf("a")
    IN  /\ Len(os) = 1
        /\ ~os[1].ok
        /\ os[1].err.cls = "RateLimitError"
        /\ inv["a"].pc = "failed"

\* C4: when the retry fails too its error leaves run_agent, with no further
\* request and no result; a completion call makes at most 2 requests and an
\* invocation at most 4, whatever the provider raises.
C4_AtMostOneRetry ==
    \A i \in Invs :
        LET cs == CallsOf(i)
            os == OutcomesOf(i)
        IN  /\ Len(cs) <= 4
            /\ Len(SelectSeq(cs, LAMBDA c : ~IsVerifierCall(c))) <= 2
            /\ Len(SelectSeq(cs, IsVerifierCall)) <= 2
            /\ \A k \in DOMAIN os :
                  (~os[k].ok /\ ~IsFirstRequest(os, k))
                  => Len(cs) = k /\ FailedWith(i, os[k].err)

\* C4 witness: both stages were retried and the verifier's retry was
\* rejected as unsupported again.
C4_Witness ==
    LET cs == CallsOf("a")
        os == OutcomesOf("a")
    IN  /\ Len(cs) = 4
        /\ Len(os) = 4
        /\ ~os[4].ok
        /\ UnsupportedParamError(os[4].err)
        /\ inv["a"].pc = "failed"

\* the text part of the user turn of a verifier request
VerifierUserText(c) == c.params.messages[2].parts[1].text

\* C5: when no request is rejected, an invocation makes exactly 2 requests,
\* one after the other: the verifier request exists only once the primary
\* reply has arrived, and its user turn carries the question and the JSON
\* serialisation of the coerced primary payload.
C5_TwoSequentialCalls ==
    \A i \in Invs :
        LET cs == CallsOf(i)
            os == OutcomesOf(i)
            q  == Strip(inv[i].question)
        IN  (\A k \in DOMAIN os : os[k].ok)
            => /\ Len(cs) <= 2
               /\ Len(cs) <= Len(os) + 1
               /\ (inv[i].pc = "done" => Len(cs) = 2 /\ Len(os) = 2)
               /\ (Len(cs) >= 1 => ~IsVerifierCall(cs[1]))
               /\ (Len(cs) = 2 =>
                     /\ Len(os) >= 1
                     /\ IsVerifierCall(cs[2])
                     /\ LET txt == VerifierUserText(cs[2])
                            payload == _chat_with_schema(os[1].message).v
                        IN  /\ inv[i].structured = payload
                            /\ txt[Len(txt)] = Doc(payload)
                            /\ SubSeq(txt, 2, 1 + Len(q)) = q)

\* C5 witness: an invocation completed without a rejection, its primary
\* reply having been fenced JSON text.
C5_Witness ==
    LET cs == CallsOf("a")
        os == OutcomesOf("a")
    IN  /\ inv["a"].pc = "done"
        /\ Len(cs) = 2
        /\ os[1].ok /\ os[2].ok
        /\ os[1].message.content.text
              = <<Fence, Word("json"), Ws, Doc(FullRecord), Ws, Fence>>
        /\ inv["a"].structured = FullRecord

\* C6: a reply never makes run_agent fail: an invocation fails only with
\* the error of a rejected request, and once both stages were answered it
\* is done and has a result.
C6_RepliesNeverFail ==
    \A i \in Invs :
        LET os == OutcomesOf(i)
            answered == Len(SelectSeq(os, LAMBDA o : o.ok))
        IN  /\ inv[i].pc = "failed"
               => os # <<>> /\ ~os[Len(os)].ok /\ inv[i].err = os[Len(os)].err
            /\ (os # <<>> /\ os[Len(os)].ok)
               => /\ inv[i].pc \in {"await", "done"}
                  /\ inv[i].err = NoErr
                  /\ (answered = 2 => inv[i].pc = "done" /\ inv[i].result # <<>>)

\* C6 witness: truncated text at the primary stage and a parsed object that
\* is no dict at the verifier stage, and the invocation is done.
C6_Witness ==
    LET os == OutcomesOf("a")
    IN  /\ inv["a"].pc = "done"
        /\ Len(os) = 2
        /\ os[1].message.content.text = <<Word("{answer: trunc")>>
        /\ os[2].message.parsed = ObjV
        /\ inv["a"].result # <<>>

\* the keys of the registry
KnownKeys == {"dermatologist", "therapist"}

\* the persona a fallback chain selector -> default key -> dermatologist gives
ChainPersona(selector, default_key) ==
    IF TruthyS(selector) /\ lower(selector.val) \in KnownKeys
    THEN lower(selector.val)
    ELSE IF TruthyS(default_key) /\ lower(default_key.val) \in KnownKeys
    THEN lower(default_key.val)
    ELSE "dermatologist"

\* invocation i has resolved its persona and issued its primary request
Resolved(i) == inv[i].pc \notin {"off", "start"}

\* C7 as stated: an absent, empty or unknown selector falls back to the
\* configured default key, and only when that key is absent or unknown too,
\* to the dermatologist persona.
C7_UnknownFallsBackToDefaultKey ==
    \A i \in Invs :
        Resolved(i)
        => inv[i].profile = ChainPersona(inv[i].agent_key, settings.default_agent)

\* C7, amended: resolution always yields a persona of the registry; a known
\* key in any letter case gives that persona; an absent or empty selector
\* gives the configured default key's persona; a non-empty unknown selector,
\* or an absent, empty or unknown default key when it is consulted, gives
\* the dermatologist persona.
C7_PersonaResolution ==
    \A i \in Invs :
        LET sel == inv[i].agent_key
            p   == inv[i].profile
        IN  Resolved(i)
            => /\ p \in KnownKeys
               /\ (TruthyS(sel) /\ lower(sel.val) \in KnownKeys) => p = lower(sel.val)
               /\ (TruthyS(sel) /\ lower(sel.val) \notin KnownKeys) => p = "dermatologist"
               /\ ~TruthyS(sel) => p = ChainPersona(NoneS, settings.default_agent)
               /\ CallsOf(i)[1].params.messages[1].text
                     = system_prompt(AGENT_PROFILES[p])
               /\ inv[i].pc = "done"
                  => /\ inv[i].result[1].agent = p
                     /\ inv[i].result[1].title = AGENT_PROFILES[p].title
                     /\ sel = SomeS("Therapist")
                        => inv[i].result[1].title = "Generalist Therapist"

\* C7 witness: an unknown selector with the default key set to therapist
\* has resolved to dermatologist, and the invocation is done.
C7_Witness ==
    /\ inv["a"].agent_key = SomeS("Cardiologist")
    /\ settings.default_agent = SomeS("therapist")
    /\ inv["a"].pc = "done"
    /\ inv["a"].result[1].agent = "dermatologist"

\* the caller's history as a list, and the entries the claim calls valid
HistoryOf(i) == IF inv[i].history.some THEN inv[i].history.val ELSE <<>>
ValidEntry(e) == e.role \in {"user", "assistant"} /\ e.content # <<>>

\* the last 8 elements of a sequence
Last8(h) == [k \in 1..(IF Len(h) < 8 THEN Len(h) ELSE 8) |->
                h[k + (IF Len(h) < 8 THEN 0 ELSE Len(h) - 8)]]

\* history entries as they would appear among the messages
AsTurns(h) == [k \in DOMAIN h |->
                 [role |-> h[k].role, shape |-> "str",
                  text |-> h[k].content, parts |-> <<>>]]

\* the messages of the primary request, and its turns between the first
\* and the last
PrimaryMessagesOf(i) == CallsOf(i)[1].params.messages
HistoryTurnsOf(i) ==
    SubSeq(PrimaryMessagesOf(i), 2, Len(PrimaryMessagesOf(i)) - 1)

\* the frame the history turns sit in: one system turn first, the current
\* user turn last, only valid turns in between
HistoryFramed(i) ==
    LET m == PrimaryMessagesOf(i)
    IN  /\ Len(m) >= 2
        /\ m[1].role = "system"
        /\ \A k \in 2..Len(m) : m[k].role # "system"
        /\ m[Len(m)].role = "user" /\ m[Len(m)].shape = "parts"
        /\ Len(m) - 2 <= 8
        /\ \A k \in 2..(Len(m) - 1) :
              m[k].role \in {"user", "assistant"} /\ m[k].text # <<>>

\* C8 as stated: the history turns are the last (at most 8) of the valid
\* entries of the history.
C8_LastEightOfValidEntries ==
    \A i \in Invs :
        Resolved(i)
        => /\ HistoryFramed(i)
           /\ HistoryTurnsOf(i) = AsTurns(Last8(SelectSeq(HistoryOf(i), ValidEntry)))

\* C8, amended: the history turns are the valid entries among the last 8
\* entries of the history, in their order, after the one system turn and
\* before the current user turn; invalid entries never appear.
C8_ValidOfLastEightEntries ==
    \A i \in Invs :
        Resolved(i)
        => /\ HistoryFramed(i)
           /\ HistoryTurnsOf(i) = AsTurns(SelectSeq(Last8(HistoryOf(i)), ValidEntry))

\* C8 witness: a history of 9 entries whose first is valid and whose last
\* is not has been assembled into 7 history turns.
C8_Witness ==
    LET h == HistoryOf("a")
    IN  /\ Resolved("a")
        /\ Len(h) = 9
        /\ \A k \in 1..8 : ValidEntry(h[k])
        /\ ~ValidEntry(h[9])
        /\ Len(HistoryTurnsOf("a")) = 7

\* the image-reference parts of a turn
ImageParts(turn) == SelectSeq(turn.parts, LAMBDA p : p.type = "image_url")

\* the MIME type each file name of the model stands for
ExpectedMime(filename) ==
    CASE filename = SomeQ(<<"scan", "heic">>)  -> "image/heic"
      [] filename = SomeQ(<<"scan", "HEIC">>)  -> "image/heic"
      [] filename = SomeQ(<<"sample", "png">>) -> "image/png"
      [] filename = SomeQ(<<"a", "jpg">>)      -> "image/jpeg"
      [] filename = SomeQ(<<"a", "jpeg">>)     -> "image/jpeg"
      [] filename = SomeQ(<<"a", "gif">>)      -> "image/gif"
      [] filename = SomeQ(<<"a", "webp">>)     -> "image/webp"
      [] OTHER                                 -> "image/jpeg"

\* C10: with an image, the user turn of every primary and verifier request
\* holds exactly one image-reference part, the same data reference in both,
\* its MIME type given by the file name's extension (image/jpeg when unknown
\* or absent); without an image no request holds one and the verifier text
\* says that none was attached.
C10_ImageReference ==
    \A i \in Invs :
        LET cs == CallsOf(i)
            supplied == inv[i].image_bytes.some /\ inv[i].image_bytes.val # <<>>
        IN  \A k \in DOMAIN cs :
                LET m == cs[k].params.messages
                    images == ImageParts(m[Len(m)])
                IN  IF supplied
                    THEN /\ Len(images) = 1
                         /\ images[1].url.mime = ExpectedMime(inv[i].image_filename)
                         /\ images[1].url = ImageParts(cs[1].params.messages
                                              [Len(cs[1].params.messages)])[1].url
                    ELSE /\ images = <<>>
                         /\ IsVerifierCall(cs[k])
                            => \E j \in 1..(Len(VerifierUserText(cs[k])) - 1) :
                                  /\ VerifierUserText(cs[k])[j] = Word("Image attached:")
                                  /\ VerifierUserText(cs[k])[j + 1] = Word("no")

\* C10 witness: scan.heic was supplied and both requests hold one
\* image/heic reference.
C10_Witness ==
    LET cs == CallsOf("a")
    IN  /\ inv["a"].pc = "done"
        /\ inv["a"].image_filename = SomeQ(<<"scan", "heic">>)
        /\ inv["a"].image_bytes = SomeQ(<<255, 0, 255, 0>>)
        /\ Len(cs) = 2
        /\ IsVerifierCall(cs[2])
        /\ ImageParts(cs[2].params.messages[2])[1].url.mime = "image/heic"
        /\ ImageParts(cs[1].params.messages[2])
              = ImageParts(cs[2].params.messages[2])

\* the class of a provider error and the words of its message
ErrorInternals(e) == {e.cls} \cup {e.message[k] : k \in DOMAIN e.message}

\* the text holds nothing of the provider error e
HidesError(text, e) ==
    \A k \in DOMAIN text : text[k].w \notin ErrorInternals(e) \ {""}

\* handle_message has finished handling a message of the chat user
BotHandled ==
    bot.handler = "handle_message" /\ bot.pc \in {"returned", "raised"}

\* the chat user was shown one text: a rejection notice, or the failure
\* notice after run_agent failed, or the reply made of a full payload
BotShowsPayloadOrNotice ==
    \/ bot.sent \in {<<MissingKeyNotice>>, <<EmptyMessageNotice>>}
    \/ /\ bot.sent = <<FailureNotice>>
       /\ inv["a"].pc = "failed"
       /\ HidesError(bot.sent[1], inv["a"].err)
    \/ /\ inv["a"].pc = "done"
       /\ IsFullRecord(inv["a"].result[1].verified)
       /\ bot.sent = <<format_reply(inv["a"].result[1]).v.s>>

\* the HTTP client was sent one response: a rejection, or a failure
\* response after run_agent failed, or a body made of full payloads
HttpShowsPayloadOrNotice ==
    LET response == http.response[1]
    IN  \/ /\ http.exc = "HTTPException"
           /\ response.status \in {400, 500}
           /\ response.content = <<>>
        \/ /\ inv["b"].pc = "failed"
           /\ response.status = 500
           /\ response.content = <<>>
           /\ response.detail \notin ErrorInternals(inv["b"].err)
        \/ /\ inv["b"].pc = "done"
           /\ response.status = 200
           /\ IsFullRecord(response.content[1].result)
           /\ IsFullRecord(response.content[1].verification)

\* C11: whenever a front end has finished a request, its user was shown
\* either a generic notice holding nothing of the provider's error (always
\* so when run_agent failed) or a payload with all required fields; never
\* a partial payload and never nothing.
C11_PayloadOrNotice ==
    /\ BotHandled => BotShowsPayloadOrNotice
    /\ http.pc = "responded" => HttpShowsPayloadOrNotice

\* the primary request that follows from the arguments of invocation i
OwnPrimaryParams(i) ==
    LET a == ArgsOf(i)
    IN  BuildParams(DefaultSettings.openai_model,
                    PrimaryMessages(ResolveProfile(a.agent_key,
                                                   DefaultSettings.default_agent),
                                    a.question, a.image_bytes, a.image_filename,
                                    a.history),
                    SomeI(PrimaryTemperature), PrimaryMaxTokens,
                    DefaultSettings.reasoning_effort)

\* the verifier request that follows from the arguments of invocation i and
\* the reply to its primary call
OwnVerifierParams(i, message) ==
    LET a == ArgsOf(i)
        payload == _chat_with_schema(message).v
    IN  BuildParams(DefaultSettings.openai_verifier_model,
                    VerifierMessages(a.question, a.image_bytes, a.image_filename,
                                     <<Doc(payload)>>),
                    SomeI(VerifierTemperature), VerifierMaxTokens,
                    DefaultSettings.reasoning_effort)

\* the replies among the outcomes os, in order
RepliesIn(os) == SelectSeq(os, LAMBDA o : o.ok)

\* every request and the result of invocation i follow from its own
\* arguments and the outcomes of its own requests
OwnInputsOnly(i) ==
    LET cs == CallsOf(i)
        os == OutcomesOf(i)
        a  == ArgsOf(i)
        rs == RepliesIn(os)
    IN  /\ inv[i].question = a.question
        /\ inv[i].agent_key = a.agent_key
        /\ inv[i].image_bytes = a.image_bytes
        /\ inv[i].image_filename = a.image_filename
        /\ inv[i].history = a.history
        /\ Len(os) <= Len(cs)
        /\ \A k \in DOMAIN cs :
              cs[k].params =
                 IF k = 1 THEN OwnPrimaryParams(i)
                 ELSE IF os[k - 1].ok THEN OwnVerifierParams(i, os[k - 1].message)
                 ELSE RetryParams(cs[k - 1].params)
        /\ \A k \in DOMAIN cs :
              IsVerifierCall(cs[k])
              => LET txt == VerifierUserText(cs[k])
                 IN  /\ SubSeq(txt, 2, 1 + Len(Strip(a.question))) = Strip(a.question)
                     /\ txt[Len(txt)] = Doc(inv[i].structured)
                     /\ inv[i].structured = _chat_with_schema(rs[1].message).v
        /\ inv[i].pc = "done"
           => /\ Len(rs) = 2
              /\ inv[i].result[1].agent
                    = ResolveProfile(a.agent_key, DefaultSettings.default_agent).key
              /\ inv[i].result[1].analysis_raw = _chat_with_schema(rs[1].message).v
              /\ inv[i].result[1].verified = _chat_with_schema(rs[2].message).v

\* a step of one invocation leaves every other invocation, its requests and
\* their outcomes, and the configuration as they were
OthersUntouched ==
    /\ settings' = settings
    /\ \A i \in Invs :
          inv'[i] # inv[i]
          => \A j \in Invs \ {i} :
                /\ inv'[j] = inv[j]
                /\ CallsOf(j)' = CallsOf(j)
                /\ OutcomesOf(j)' = OutcomesOf(j)

\* C12: in every interleaving of two invocations, each invocation's
\* requests and result follow from its own arguments and the replies to its
\* own requests (its verifier request embeds its own question and its own
\* coerced primary payload), and no step of one invocation changes anything
\* of the other or of the shared configuration.
C12_InvocationsIndependent ==
    /\ [](\A i \in Invs : OwnInputsOnly(i))
    /\ [][OthersUntouched]_vars

\* C12 witness: both invocations are done, their requests were interleaved
\* (the second one's verifier request was made before the first one's
\* primary reply arrived) and their primary payloads differ.
C12_Witness ==
    /\ inv["a"].pc = "done"
    /\ inv["b"].pc = "done"
    /\ Len(calls) = 4
    /\ calls[1].who = "a" /\ calls[2].who = "b"
    /\ calls[3].who = "b" /\ calls[4].who = "a"
    /\ outcomes[1].who = "b" /\ outcomes[2].who = "b"
    /\ inv["a"].structured = FullRecord
    /\ inv["b"].structured = FallbackRecord(<<Word("sorry")>>)

\* the concatenation of a sequence of texts
RECURSIVE Concat(_)
Concat(ts) == IF ts = <<>> THEN <<>> ELSE ts[1] \o Concat(Tail(ts))

\* the texts of the text-typed segments, in order
TextsOfTextSegs(segs) ==
    LET ts == SelectSeq(segs, LAMBDA s : s.type = "text")
    IN  [k \in DOMAIN ts |-> ts[k].text]

\* the freeform text of a message: its content when that is a str, the
\* text-typed segments concatenated when it is a list, else empty
FreeformText(message) ==
    CASE message.content.shape = "str"  -> message.content.text
      [] message.content.shape = "list" -> Concat(TextsOfTextSegs(message.content.segs))
      [] OTHER                          -> <<>>

\* the body was extracted from the message cin
Extracted == cpc \in {"body", "coerced"}

\* C13 as stated: a parsed value that is present is the body, whatever the
\* content; otherwise the body is the freeform text.
C13_PresentParsedIsUsed ==
    Extracted
    => cout.v = IF cin.parsed # NullV THEN cin.parsed
                ELSE StrV(FreeformText(cin))

\* C13, amended: a parsed value that is present and non-empty is the body,
\* as it is and whatever the content; otherwise (absent, or empty such as
\* an empty object) the body is the freeform text, which for segmented
\* content is the text-typed segments concatenated in order; the body is
\* what is then coerced.
C13_NonEmptyParsedIsUsed ==
    /\ Extracted
       => /\ ~cout.raised
          /\ cout.v = IF cin.parsed # NullV /\ Truthy(cin.parsed) THEN cin.parsed
                      ELSE StrV(FreeformText(cin))
    /\ cpc = "coerced" => cout2 = parse_structured_response(cout.v)

\* C13 witness: no parsed value, and three segments of which the second
\* is a refusal: the body is the first text followed by the third.
C13_Witness ==
    /\ Extracted
    /\ cin = Msg(NullV, ContentList(<<Seg("text", <<Word("abc")>>),
                                      Seg("refusal", <<Word("abc")>>),
                                      Seg("text", <<Doc(FullRecord)>>)>>))
    /\ cout.v = StrV(<<Word("abc"), Doc(FullRecord)>>)

\* the history handle_message handed to run_agent for the message in hand
PassedHistory == HistoryOf("a")

\* this step is handle_message resuming after run_agent returned and
\* sending the reply
ExchangeStep ==
    bot.pc = "await" /\ inv["a"].pc = "done" /\ bot'.pc = "returned"

\* the step stores the old history followed by the user entry and the
\* assistant reply, shortened from the front to at most 8 entries
ExchangeAppends ==
    ExchangeStep
    => LET old == SessionHistory
           new == SessionHistory'
           n   == Len(new)
           kept == n - 2
       IN  /\ user_data'.history.some
           /\ n = IF Len(old) + 2 > 8 THEN 8 ELSE Len(old) + 2
           /\ new[n - 1] = [role |-> "user", content |-> bot.text]
           /\ new[n] = [role |-> "assistant", content |-> bot'.sent[1]]
           /\ \A k \in 1..kept : new[k] = old[Len(old) - kept + k]

\* C14: the stored session history never has more than 8 entries, the
\* history handed to run_agent never more than 6 (the newest stored ones),
\* and each successful exchange stores the user entry and the assistant
\* reply as the two newest entries, dropping only the oldest.
C14_RollingHistory ==
    /\ [](/\ Len(SessionHistory) <= 8
          /\ bot.pc = "await"
             => /\ Len(PassedHistory) <= 6
                /\ Len(PassedHistory) = IF Len(SessionHistory) > 6 THEN 6
                                        ELSE Len(SessionHistory)
                /\ \A k \in 1..Len(PassedHistory) :
                      PassedHistory[k]
                         = SessionHistory[Len(SessionHistory) - Len(PassedHistory) + k])
    /\ [][ExchangeAppends]_vars

\* C14 witness: an exchange has just been stored, the session holds 8
\* entries of which the first 6 were handed to run_agent and the last 2 are
\* the user's message and the reply sent.
C14_Witness ==
    /\ bot.pc = "returned"
    /\ bot.handler = "handle_message"
    /\ inv["a"].pc = "done"
    /\ Len(SessionHistory) = 8
    /\ PassedHistory = SubSeq(SessionHistory, 1, 6)
    /\ SessionHistory[7].role = "user"
    /\ SessionHistory[8] = [role |-> "assistant", content |-> bot.sent[1]]

\* this step ends a message of the chat user without a reply made from a
\* pipeline result: a rejection, or a failure of run_agent
MessageRefused ==
    /\ bot' # bot
    /\ bot'.handler = "handle_message"
    /\ bot'.pc = "returned"
    /\ bot'.sent \in {<<MissingKeyNotice>>, <<EmptyMessageNotice>>,
                      <<FailureNotice>>}

\* C15: a message that is rejected, or whose run_agent call fails, leaves
\* the stored history and the selected persona as they were; the history is
\* written only by the step that sends the reply of a successful run, and
\* the persona only by the mode command.
C15_RefusalLeavesSession ==
    [][/\ MessageRefused => user_data' = user_data
       /\ user_data'.history # user_data.history
          => ExchangeStep /\ bot'.sent # <<>> /\ bot'.sent # <<FailureNotice>>
       /\ user_data'.agent # user_data.agent => bot'.handler = "set_agent"]_vars

\* C15 witness: a message has failed in a session that holds one exchange
\* and a selected persona.
C15_Witness ==
    /\ bot.pc = "returned"
    /\ bot.sent = <<FailureNotice>>
    /\ inv["a"].pc = "failed"
    /\ Len(SessionHistory) = 2
    /\ user_data.agent = SomeS("therapist")

\* the roles of the turns alternate, user first
Alternates(turns) ==
    \A k \in DOMAIN turns :
        turns[k].role = IF k % 2 = 1 THEN "user" ELSE "assistant"

\* C16: every stored entry of the session has role user or assistant and
\* non-empty content, so the primary request of the next message carries
\* every entry of the window handed to run_agent, as alternating user and
\* assistant turns.
C16_StoredEntriesForwarded ==
    /\ \A k \in DOMAIN SessionHistory :
          /\ SessionHistory[k].role \in {"user", "assistant"}
          /\ SessionHistory[k].content # <<>>
    /\ (bot.pc = "await" /\ Resolved("a"))
       => /\ HistoryTurnsOf("a") = AsTurns(PassedHistory)
          /\ Alternates(HistoryTurnsOf("a"))

====
